---- MODULE Spec2Model ----
(***************************************************************************)
(* con-mon: a probe supervisor (pinger) restarted forever by main, with a  *)
(* watcher task per probe process, and a periodic throughput sampler       *)
(* (tester / speed_tester).  Model of src/src/main.rs.                     *)
(***************************************************************************)
EXTENDS Integers, Sequences, FiniteSets, TLC

(* ---------------------------------------------------------------------- *)
(* Program constants                                                       *)
(* ---------------------------------------------------------------------- *)
PING_TIMEOUT == 10

U16_MAX == 65535

(* ---------------------------------------------------------------------- *)
(* Bounds of the model                                                     *)
(* ---------------------------------------------------------------------- *)
MaxSessions == 2

MaxLines == 2

MaxPipe == 2

MaxTicks == 3

\* the plain line is parsed with every latency of 0..MaxMs
MaxMs == 65600

\* bytes a failing write_all may have written before the error
MaxWritten == 3

\* the two tasks run together: sessions started, lines produced and ticks
\* begun, in total
SysWork == 3

(* ---------------------------------------------------------------------- *)
(* Text: a line is a sequence of one-character strings.                    *)
(* ---------------------------------------------------------------------- *)
AsciiDigits == <<"0", "1", "2", "3", "4", "5", "6", "7", "8", "9">>

IsAsciiDigit(c) == \E d \in 1..10 : AsciiDigits[d] = c

\* "u0663" stands for ARABIC-INDIC DIGIT THREE: the regex class \d is
\* Unicode-aware, the integer parser is not.
IsRegexDigit(c) == IsAsciiDigit(c) \/ c = "u0663"

DigitVal(c) == (CHOOSE d \in 1..10 : AsciiDigits[d] = c) - 1

\* "xFF" stands for a byte that is not valid UTF-8.
IsUtf8(line) == \A p \in 1..Len(line) : line[p] # "xFF"

SetMin(S) == CHOOSE x \in S : \A y \in S : x <= y

SetMax(S) == CHOOSE x \in S : \A y \in S : x >= y

(* ---------------------------------------------------------------------- *)
(* impl FromStr for Ping: regex \[(.+)\].*time=(\d+), then u16 parse       *)
(* ---------------------------------------------------------------------- *)
\* "time=" followed by at least one \d starts at position k
TimeAt(s, k) ==
    /\ k + 5 <= Len(s)
    /\ s[k] = "t" /\ s[k+1] = "i" /\ s[k+2] = "m" /\ s[k+3] = "e" /\ s[k+4] = "="
    /\ IsRegexDigit(s[k+5])

\* closing brackets that can end group 1 when the match starts at i:
\* (.+) needs at least one character, and a time= field must follow
ClosersFrom(s, i) ==
    {j \in (i+2)..Len(s) : s[j] = "]" /\ \E k \in (j+1)..Len(s) : TimeAt(s, k)}

\* start positions at which the pattern matches
MatchStarts(s) == {i \in 1..Len(s) : s[i] = "[" /\ ClosersFrom(s, i) # {}}

\* end of the maximal run of \d starting at p
DigitRunEnd(s, p) ==
    SetMax({e \in p..Len(s) : \A q \in p..e : IsRegexDigit(s[q])})

\* variant: the value wraps at 16 bits instead of failing
RECURSIVE ParseU16Acc_Wrapping(_, _, _)
ParseU16Acc_Wrapping(ds, p, acc) ==
    IF p > Len(ds) THEN [ok |-> TRUE, val |-> acc]
    ELSE IF ~IsAsciiDigit(ds[p]) THEN [ok |-> FALSE, val |-> 0]
    ELSE ParseU16Acc_Wrapping(ds, p + 1, (acc * 10 + DigitVal(ds[p])) % (U16_MAX + 1))

\* str::parse::<u16>: ASCII digits only, checked arithmetic
RECURSIVE ParseU16Acc(_, _, _)
ParseU16Acc(ds, p, acc) ==
    IF p > Len(ds) THEN [ok |-> TRUE, val |-> acc]
    ELSE IF ~IsAsciiDigit(ds[p]) THEN [ok |-> FALSE, val |-> 0]
    ELSE LET v == acc * 10 + DigitVal(ds[p])
         IN  IF v > U16_MAX THEN [ok |-> FALSE, val |-> 0]
             ELSE ParseU16Acc(ds, p + 1, v)

ParseU16(ds) ==
    IF Len(ds) = 0 THEN [ok |-> FALSE, val |-> 0] ELSE ParseU16Acc(ds, 1, 0)

\* variant: the first time= field after the bracket is taken, not the last
Captures_FirstField(s) ==
    LET i == SetMin(MatchStarts(s))
        j == SetMax(ClosersFrom(s, i))
        k == SetMin({k2 \in (j+1)..Len(s) : TimeAt(s, k2)})
    IN  [g1 |-> SubSeq(s, i + 1, j - 1),
         g2 |-> SubSeq(s, k + 5, DigitRunEnd(s, k + 5))]

\* leftmost match; (.+) and .* greedy, (\d+) greedy
Captures(s) ==
    LET i == SetMin(MatchStarts(s))
        j == SetMax(ClosersFrom(s, i))
        k == SetMax({k2 \in (j+1)..Len(s) : TimeAt(s, k2)})
    IN  [g1 |-> SubSeq(s, i + 1, j - 1),
         g2 |-> SubSeq(s, k + 5, DigitRunEnd(s, k + 5))]

NoPing == [ok |-> FALSE, timestamp |-> <<>>, ms |-> 0]

from_str(s) ==
    IF MatchStarts(s) = {} THEN NoPing
    ELSE LET cap == Captures(s)
             n == ParseU16(cap.g2)
         IN  IF n.ok THEN [ok |-> TRUE, timestamp |-> cap.g1, ms |-> n.val]
             ELSE NoPing

(* ---------------------------------------------------------------------- *)
(* impl Display for Ping, and the "{}\n" of the append                     *)
(* ---------------------------------------------------------------------- *)
RECURSIVE Decimal(_)
Decimal(n) ==
    IF n < 10 THEN <<AsciiDigits[n + 1]>>
    ELSE Decimal(n \div 10) \o <<AsciiDigits[(n % 10) + 1]>>

fmt(ping) == ping.timestamp \o <<" ">> \o Decimal(ping.ms)

LogLine(ping) == fmt(ping) \o <<"\n">>

(* ---------------------------------------------------------------------- *)
(* serde_json on the throughput collection file.  The file is a sequence   *)
(* of tokens: "[", "]", ",", and atoms (one atom = one JSON value that is  *)
(* not an array: a record of the tool, or the string "str").               *)
(* ---------------------------------------------------------------------- *)
Records == {"r1", "r2"}

Atoms == Records \cup {"str"}

\* serde_json::to_writer of an array of atoms
RECURSIVE ArrayBody(_)
ArrayBody(elems) ==
    IF Len(elems) = 0 THEN <<>>
    ELSE IF Len(elems) = 1 THEN <<elems[1]>>
    ELSE <<elems[1], ",">> \o ArrayBody(Tail(elems))

to_writer(elems) == <<"[">> \o ArrayBody(elems) \o <<"]">>

\* the elements of a comma-separated body, or failure
RECURSIVE ReadBody(_, _)
ReadBody(toks, acc) ==
    IF Len(toks) = 0 THEN [ok |-> FALSE, elems |-> <<>>]
    ELSE IF toks[1] \notin Atoms THEN [ok |-> FALSE, elems |-> <<>>]
    ELSE IF Len(toks) = 1 THEN [ok |-> TRUE, elems |-> Append(acc, toks[1])]
    ELSE IF toks[2] # "," THEN [ok |-> FALSE, elems |-> <<>>]
    ELSE ReadBody(SubSeq(toks, 3, Len(toks)), Append(acc, toks[1]))

\* serde_json::from_reader::<_, Value>: one JSON value, then end of input
\* (trailing tokens are an error).  kind: "array", "other" or "error".
from_reader(toks) ==
    IF Len(toks) = 0 THEN [kind |-> "error", elems |-> <<>>]
    ELSE IF Len(toks) = 1 THEN
        IF toks[1] \in Atoms THEN [kind |-> "other", elems |-> <<>>]
        ELSE [kind |-> "error", elems |-> <<>>]
    ELSE IF toks[1] # "[" \/ toks[Len(toks)] # "]" THEN [kind |-> "error", elems |-> <<>>]
    ELSE IF Len(toks) = 2 THEN [kind |-> "array", elems |-> <<>>]
    ELSE LET b == ReadBody(SubSeq(toks, 2, Len(toks) - 1), <<>>)
         IN  IF b.ok THEN [kind |-> "array", elems |-> b.elems]
             ELSE [kind |-> "error", elems |-> <<>>]

(* ---------------------------------------------------------------------- *)
(* State                                                                   *)
(* ---------------------------------------------------------------------- *)
VARIABLES
    main,       \* main task: "running", "error" (returned Err), "panic"
    procUp,     \* the runtime is still executing tasks
    pc,         \* position of the supervisor: "spawn", "read", "send"
    sess,       \* number of probe spawn attempts so far; the current session
    child,      \* per session: "none", "running", "exited", "reaped"
    watcher,    \* per session: "none", "select", "killing", "done_exit",
                \*   "done_kill", "dropped"
    chan,       \* per session oneshot: "none", "open", "sent", "tx_dropped",
                \*   "rx_dropped"
    pipe,       \* lines written by the current probe and not read yet
    emitted,    \* number of lines emitted by probes so far
    timer,      \* seconds since the pending time::timeout was created
    log,        \* content of ping.log, a sequence of characters
    warnings,   \* number of warn! records
    outcome,    \* how the current session's loop ended: "none", "eof",
                \*   "stall", "error"
    fail,       \* what made main return Err: "none", "spawn", "open",
                \*   "write", "flush"
    reads,      \* history: results of the reads of the current session
    parsedLines,\* history: the lines read so far that parsed, in read order
    late,       \* history: in this session a window passed with nothing to read
    endedBy,    \* history, per session: the read result that ended its loop
    outfile,    \* per session: its handle on ping.log, "none", "open", "closed"
    stfile,     \* content of speedtests.json, a sequence of tokens
    stfile0,    \* history: content of speedtests.json at program start
    tester,     \* throughput task: "ticking", "testing", "failed" (returned Err)
    ticks,      \* number of interval ticks so far
    written,    \* history: records of the ticks that returned Ok after writing
    lastTick,   \* history: result of the latest tick
    inFlight,   \* number of speed_tester calls that have not returned
    failedAt,   \* history: <<sess, Len(log)>> when the tester task returned Err
    pin,        \* the line handed to line.parse::<Ping>(), by its parts
    pout        \* <<>> before the parse, then <<its result>>

probeVars == <<main, procUp, pc, sess, child, watcher, chan, pipe, emitted,
               timer, log, warnings, outcome, fail, reads, parsedLines, late,
               endedBy, outfile>>

samplerVars == <<stfile, stfile0, tester, ticks, written, lastTick, inFlight,
                 failedAt>>

parserVars == <<pin, pout>>

vars == <<probeVars, samplerVars, parserVars>>

Sessions == 1..MaxSessions

\* the lines a probe may print
\* the k-th line of the probes, well-formed: its timestamp is k
GoodLine(k) ==
    <<"[", AsciiDigits[k + 1], ".", "5", "]", " ", "t", "i", "m", "e", "=", "2", "3">>

GarbageLine == <<"g", "a", "r", "b", "a", "g", "e">>

BinaryLine == <<"xFF">>

\* what a probe may print as the k-th line
ProbeLines(k) == {GoodLine(k), GarbageLine, BinaryLine}

Last(seq) == seq[Len(seq)]

IsPrefix(a, b) == Len(a) <= Len(b) /\ SubSeq(b, 1, Len(a)) = a

(* ---------------------------------------------------------------------- *)
(* Init: main has spawned tester and is about to call pinger               *)
(* ---------------------------------------------------------------------- *)
ProbeInit ==
    /\ main = "running"
    /\ procUp = TRUE
    /\ pc = "spawn"
    /\ sess = 0
    /\ child = [s \in Sessions |-> "none"]
    /\ watcher = [s \in Sessions |-> "none"]
    /\ chan = [s \in Sessions |-> "none"]
    /\ pipe = <<>>
    /\ emitted = 0
    /\ timer = 0
    /\ log = <<>>
    /\ warnings = 0
    /\ outcome = "none"
    /\ fail = "none"
    /\ reads = <<>>
    /\ parsedLines = <<>>
    /\ late = FALSE
    /\ endedBy = [s \in Sessions |-> "none"]
    /\ outfile = [s \in Sessions |-> "none"]

(* ---------------------------------------------------------------------- *)
(* pinger: spawn, channel, watcher task, open of ping.log                  *)
(* ---------------------------------------------------------------------- *)
\* variant: a failed spawn is swallowed and tried again
SpawnFail_Retried ==
    /\ main = "running" /\ pc = "spawn" /\ sess < MaxSessions
    /\ sess' = sess + 1
    /\ reads' = <<>>
    /\ outcome' = "none"
    /\ UNCHANGED <<outfile, endedBy, main, fail, procUp, pc, child, watcher, chan, pipe, emitted,
                   timer, log, warnings, parsedLines, late>>
    /\ UNCHANGED <<samplerVars, parserVars>>

\* Command::spawn()? fails
SpawnFail ==
    /\ main = "running" /\ pc = "spawn" /\ sess < MaxSessions
    /\ sess' = sess + 1
    /\ main' = "error"
    /\ fail' = "spawn"
    /\ reads' = <<>>
    /\ outcome' = "none"
    /\ UNCHANGED <<outfile, endedBy, procUp, pc, child, watcher, chan, pipe, emitted, timer, log,
                   warnings, parsedLines, late>>
    /\ UNCHANGED <<samplerVars, parserVars>>

\* the probe runs, the watcher task is spawned, File::open()? fails:
\* send is dropped without a send
SpawnOpenFail ==
    /\ main = "running" /\ pc = "spawn" /\ sess < MaxSessions
    /\ sess' = sess + 1
    /\ child' = [child EXCEPT ![sess + 1] = "running"]
    /\ watcher' = [watcher EXCEPT ![sess + 1] = "select"]
    /\ chan' = [chan EXCEPT ![sess + 1] = "tx_dropped"]
    /\ main' = "error"
    /\ fail' = "open"
    /\ pipe' = <<>>
    /\ reads' = <<>>
    /\ outcome' = "none"
    /\ UNCHANGED <<outfile, endedBy, procUp, pc, emitted, timer, log, warnings, parsedLines, late>>
    /\ UNCHANGED <<samplerVars, parserVars>>

\* top of the loop: a new time::timeout is created around the next read
LoopAgain ==
    /\ pc' = "read"
    /\ timer' = 0

\* variant: ping.log is opened for writing from the start, not for append
SpawnOk_Truncating ==
    /\ main = "running" /\ pc = "spawn" /\ sess < MaxSessions
    /\ sess' = sess + 1
    /\ child' = [child EXCEPT ![sess + 1] = "running"]
    /\ watcher' = [watcher EXCEPT ![sess + 1] = "select"]
    /\ chan' = [chan EXCEPT ![sess + 1] = "open"]
    /\ pipe' = <<>>
    /\ log' = <<>>
    /\ LoopAgain
    /\ late' = FALSE
    /\ reads' = <<>>
    /\ outcome' = "none"
    /\ outfile' = [outfile EXCEPT ![sess + 1] = "open"]
    /\ UNCHANGED <<endedBy, main, procUp, emitted, warnings, fail, parsedLines>>
    /\ UNCHANGED <<samplerVars, parserVars>>

\* the probe runs, the watcher task is spawned, ping.log is open for
\* append, the first read is pending
SpawnOk ==
    /\ main = "running" /\ pc = "spawn" /\ sess < MaxSessions
    /\ sess' = sess + 1
    /\ child' = [child EXCEPT ![sess + 1] = "running"]
    /\ watcher' = [watcher EXCEPT ![sess + 1] = "select"]
    /\ chan' = [chan EXCEPT ![sess + 1] = "open"]
    /\ pipe' = <<>>
    /\ LoopAgain
    /\ late' = FALSE
    /\ reads' = <<>>
    /\ outcome' = "none"
    /\ outfile' = [outfile EXCEPT ![sess + 1] = "open"]
    /\ UNCHANGED <<endedBy, main, procUp, emitted, log, warnings, fail, parsedLines>>
    /\ UNCHANGED <<samplerVars, parserVars>>

(* ---------------------------------------------------------------------- *)
(* The probe process and the clock                                         *)
(* ---------------------------------------------------------------------- *)
ChildEmit(line) ==
    /\ procUp /\ pc = "read" /\ main = "running"
    /\ child[sess] = "running"
    /\ Len(pipe) < MaxPipe
    /\ emitted < MaxLines
    /\ pipe' = Append(pipe, line)
    /\ emitted' = emitted + 1
    /\ UNCHANGED <<outfile, endedBy, main, procUp, pc, sess, child, watcher, chan, timer, log,
                   warnings, outcome, fail, reads, parsedLines, late>>
    /\ UNCHANGED <<samplerVars, parserVars>>

ChildExit(s) ==
    /\ child[s] = "running"
    /\ child' = [child EXCEPT ![s] = "exited"]
    /\ UNCHANGED <<outfile, endedBy, main, procUp, pc, sess, watcher, chan, pipe, emitted, timer,
                   log, warnings, outcome, fail, reads, parsedLines,
                   late>>
    /\ UNCHANGED <<samplerVars, parserVars>>

\* one more second passes with the read pending: nothing to return yet
Tick ==
    /\ procUp /\ main = "running" /\ pc = "read"
    /\ pipe = <<>>
    /\ child[sess] = "running"
    /\ timer < PING_TIMEOUT
    /\ timer' = timer + 1
    /\ late' = (late \/ timer' = PING_TIMEOUT)
    /\ UNCHANGED <<outfile, endedBy, main, procUp, pc, sess, child, watcher, chan, pipe, emitted,
                   log, warnings, outcome, fail, reads, parsedLines>>
    /\ UNCHANGED <<samplerVars, parserVars>>

(* ---------------------------------------------------------------------- *)
(* pinger: one turn of the read loop                                       *)
(* ---------------------------------------------------------------------- *)
\* lines.next_line() has a line to return
LineReady == procUp /\ main = "running" /\ pc = "read" /\ pipe # <<>>

\* Ok(Ok(Some(line))), the line parses, write_all and flush succeed
ReadSample ==
    /\ LineReady
    /\ IsUtf8(Head(pipe))
    /\ from_str(Head(pipe)).ok
    /\ pipe' = Tail(pipe)
    /\ log' = log \o LogLine(from_str(Head(pipe)))
    /\ parsedLines' = Append(parsedLines, Head(pipe))
    /\ reads' = Append(reads, "sample")
    /\ LoopAgain
    /\ UNCHANGED <<outfile, endedBy, main, procUp, sess, child, watcher, chan, emitted, warnings,
                   outcome, fail, late>>
    /\ UNCHANGED <<samplerVars, parserVars>>

\* variant: the result of write_all is dropped and the loop goes on
ReadSampleWriteFail_Swallowed(n) ==
    /\ LineReady
    /\ IsUtf8(Head(pipe))
    /\ from_str(Head(pipe)).ok
    /\ n < Len(LogLine(from_str(Head(pipe))))
    /\ pipe' = Tail(pipe)
    /\ log' = log \o SubSeq(LogLine(from_str(Head(pipe))), 1, n)
    /\ parsedLines' = Append(parsedLines, Head(pipe))
    /\ reads' = Append(reads, "writefail")
    /\ LoopAgain
    /\ UNCHANGED <<outfile, endedBy, main, procUp, sess, child, watcher, chan, emitted, warnings,
                   outcome, fail, late>>
    /\ UNCHANGED <<samplerVars, parserVars>>

\* Ok(Ok(Some(line))), the line parses, write_all()? fails after n bytes:
\* pinger returns the error, send is dropped, main returns the error
ReadSampleWriteFail(n) ==
    /\ LineReady
    /\ IsUtf8(Head(pipe))
    /\ from_str(Head(pipe)).ok
    /\ n < Len(LogLine(from_str(Head(pipe))))
    /\ pipe' = Tail(pipe)
    /\ log' = log \o SubSeq(LogLine(from_str(Head(pipe))), 1, n)
    /\ parsedLines' = Append(parsedLines, Head(pipe))
    /\ reads' = Append(reads, "writefail")
    /\ outcome' = "error"
    /\ fail' = "write"
    /\ main' = "error"
    /\ chan' = [chan EXCEPT ![sess] = IF @ = "open" THEN "tx_dropped" ELSE @]
    /\ endedBy' = [endedBy EXCEPT ![sess] = "writefail"]
    /\ outfile' = [outfile EXCEPT ![sess] = "closed"]
    /\ UNCHANGED <<procUp, pc, sess, child, watcher, emitted, timer, warnings, late>>
    /\ UNCHANGED <<samplerVars, parserVars>>

\* Ok(Ok(Some(line))), the line parses, write_all succeeds, flush()? fails
ReadSampleFlushFail ==
    /\ LineReady
    /\ IsUtf8(Head(pipe))
    /\ from_str(Head(pipe)).ok
    /\ pipe' = Tail(pipe)
    /\ log' = log \o LogLine(from_str(Head(pipe)))
    /\ parsedLines' = Append(parsedLines, Head(pipe))
    /\ reads' = Append(reads, "flushfail")
    /\ outcome' = "error"
    /\ fail' = "flush"
    /\ main' = "error"
    /\ chan' = [chan EXCEPT ![sess] = IF @ = "open" THEN "tx_dropped" ELSE @]
    /\ endedBy' = [endedBy EXCEPT ![sess] = "flushfail"]
    /\ outfile' = [outfile EXCEPT ![sess] = "closed"]
    /\ UNCHANGED <<procUp, pc, sess, child, watcher, emitted, timer, warnings, late>>
    /\ UNCHANGED <<samplerVars, parserVars>>

\* variant: a line that does not parse ends the loop
ReadMalformed_Breaks ==
    /\ LineReady
    /\ IsUtf8(Head(pipe))
    /\ ~from_str(Head(pipe)).ok
    /\ pipe' = Tail(pipe)
    /\ warnings' = warnings + 1
    /\ reads' = Append(reads, "malformed")
    /\ outcome' = "stall"
    /\ pc' = "send"
    /\ UNCHANGED <<outfile, endedBy, main, procUp, sess, child, watcher, chan, emitted, log,
                   fail, parsedLines, late, timer>>
    /\ UNCHANGED <<samplerVars, parserVars>>

\* Ok(Ok(Some(line))), the line does not parse: warn! and continue
ReadMalformed ==
    /\ LineReady
    /\ IsUtf8(Head(pipe))
    /\ ~from_str(Head(pipe)).ok
    /\ pipe' = Tail(pipe)
    /\ warnings' = warnings + 1
    /\ reads' = Append(reads, "malformed")
    /\ LoopAgain
    /\ UNCHANGED <<outfile, endedBy, main, procUp, sess, child, watcher, chan, emitted, log,
                   outcome, fail, parsedLines, late>>
    /\ UNCHANGED <<samplerVars, parserVars>>

\* Ok(Err(_)): next_line fails on bytes that are not UTF-8; the wildcard
\* arm logs "Ping took longer than ..." and breaks
ReadInvalid ==
    /\ LineReady
    /\ ~IsUtf8(Head(pipe))
    /\ pipe' = Tail(pipe)
    /\ reads' = Append(reads, "ioerr")
    /\ outcome' = "stall"
    /\ pc' = "send"
    /\ endedBy' = [endedBy EXCEPT ![sess] = "ioerr"]
    /\ UNCHANGED <<outfile, main, procUp, sess, child, watcher, chan, emitted, timer, log,
                   warnings, fail, parsedLines, late>>
    /\ UNCHANGED <<samplerVars, parserVars>>

\* Ok(Ok(None)): the probe closed its output; "Task gave no more lines"
ReadEof ==
    /\ procUp /\ main = "running" /\ pc = "read"
    /\ pipe = <<>>
    /\ child[sess] # "running"
    /\ reads' = Append(reads, "eof")
    /\ outcome' = "eof"
    /\ pc' = "send"
    /\ endedBy' = [endedBy EXCEPT ![sess] = "eof_or_elapsed"]
    /\ UNCHANGED <<outfile, main, procUp, sess, child, watcher, chan, pipe, emitted, timer,
                   log, warnings, fail, parsedLines, late>>
    /\ UNCHANGED <<samplerVars, parserVars>>

\* Err(Elapsed): nothing to read when the window closes; the wildcard
\* arm logs "Ping took longer than ..." and breaks
ReadTimeout ==
    /\ procUp /\ main = "running" /\ pc = "read"
    /\ timer = PING_TIMEOUT
    /\ pipe = <<>>
    /\ child[sess] = "running"
    /\ reads' = Append(reads, "elapsed")
    /\ outcome' = "stall"
    /\ pc' = "send"
    /\ endedBy' = [endedBy EXCEPT ![sess] = "eof_or_elapsed"]
    /\ UNCHANGED <<outfile, main, procUp, sess, child, watcher, chan, pipe, emitted, timer,
                   log, warnings, fail, parsedLines, late>>
    /\ UNCHANGED <<samplerVars, parserVars>>

(* ---------------------------------------------------------------------- *)
(* pinger: send.send(()).unwrap(); Ok(())  and main's loop                 *)
(* ---------------------------------------------------------------------- *)
\* the receiver exists: the message is stored, pinger returns Ok and
\* main calls pinger again
SendOk ==
    /\ procUp /\ main = "running" /\ pc = "send"
    /\ chan[sess] = "open"
    /\ chan' = [chan EXCEPT ![sess] = "sent"]
    /\ pc' = "spawn"
    /\ outfile' = [outfile EXCEPT ![sess] = "closed"]
    /\ UNCHANGED <<endedBy, main, procUp, sess, child, watcher, pipe, emitted, timer, log,
                   warnings, outcome, fail, reads, parsedLines, late>>
    /\ UNCHANGED <<samplerVars, parserVars>>

\* the receiver was dropped by the finished watcher: send returns Err and
\* unwrap panics on the main task
SendPanic ==
    /\ procUp /\ main = "running" /\ pc = "send"
    /\ chan[sess] = "rx_dropped"
    /\ main' = "panic"
    /\ outfile' = [outfile EXCEPT ![sess] = "closed"]
    /\ UNCHANGED <<endedBy, procUp, pc, sess, child, watcher, chan, pipe, emitted, timer,
                   log, warnings, outcome, fail, reads, parsedLines,
                   late>>
    /\ UNCHANGED <<samplerVars, parserVars>>

(* ---------------------------------------------------------------------- *)
(* The watcher task of session s: select! { handle.wait(), recv }          *)
(* ---------------------------------------------------------------------- *)
\* handle.wait() completes: the exit status is collected, recv is dropped
WatcherExit(s) ==
    /\ procUp /\ watcher[s] = "select"
    /\ child[s] = "exited"
    /\ child' = [child EXCEPT ![s] = "reaped"]
    /\ watcher' = [watcher EXCEPT ![s] = "done_exit"]
    /\ chan' = [chan EXCEPT ![s] = IF @ = "open" THEN "rx_dropped" ELSE @]
    /\ UNCHANGED <<outfile, endedBy, main, procUp, pc, sess, pipe, emitted, timer, log, warnings,
                   outcome, fail, reads, parsedLines, late>>
    /\ UNCHANGED <<samplerVars, parserVars>>

\* recv completes (a message, or the sender is gone): handle.kill() signals
WatcherCancel(s) ==
    /\ procUp /\ watcher[s] = "select"
    /\ chan[s] \in {"sent", "tx_dropped"}
    /\ child' = [child EXCEPT ![s] = IF @ = "running" THEN "exited" ELSE @]
    /\ watcher' = [watcher EXCEPT ![s] = "killing"]
    /\ UNCHANGED <<outfile, endedBy, main, procUp, pc, sess, chan, pipe, emitted, timer, log,
                   warnings, outcome, fail, reads, parsedLines, late>>
    /\ UNCHANGED <<samplerVars, parserVars>>

\* handle.kill().await completes: the killed process is waited for
WatcherReap(s) ==
    /\ procUp /\ watcher[s] = "killing"
    /\ child' = [child EXCEPT ![s] = "reaped"]
    /\ watcher' = [watcher EXCEPT ![s] = "done_kill"]
    /\ UNCHANGED <<outfile, endedBy, main, procUp, pc, sess, chan, pipe, emitted, timer, log,
                   warnings, outcome, fail, reads, parsedLines, late>>
    /\ UNCHANGED <<samplerVars, parserVars>>

\* main has returned or panicked: the runtime is dropped, tasks that have
\* not finished are dropped where they wait
Exit ==
    /\ procUp /\ main # "running"
    /\ procUp' = FALSE
    /\ watcher' = [s \in Sessions |->
                     IF watcher[s] \in {"select", "killing"} THEN "dropped"
                     ELSE watcher[s]]
    /\ UNCHANGED <<outfile, endedBy, main, pc, sess, child, chan, pipe, emitted, timer, log,
                   warnings, outcome, fail, reads, parsedLines, late>>
    /\ UNCHANGED <<samplerVars, parserVars>>

ProbeNext ==
    \/ SpawnFail
    \/ SpawnOpenFail
    \/ SpawnOk
    \/ \E line \in ProbeLines(emitted + 1) : ChildEmit(line)
    \/ \E s \in Sessions : ChildExit(s)
    \/ Tick
    \/ ReadSample
    \/ \E n \in 0..(MaxWritten) : ReadSampleWriteFail(n)
    \/ ReadSampleFlushFail
    \/ ReadMalformed
    \/ ReadInvalid
    \/ ReadEof
    \/ ReadTimeout
    \/ SendOk
    \/ SendPanic
    \/ \E s \in Sessions : WatcherExit(s)
    \/ \E s \in Sessions : WatcherCancel(s)
    \/ \E s \in Sessions : WatcherReap(s)
    \/ Exit

(* ---------------------------------------------------------------------- *)
(* tester / speed_tester: one interval tick is one call of speed_tester    *)
(* ---------------------------------------------------------------------- *)
\* contents speedtests.json may have when the program starts
StartFiles == {<<>>, <<"[", "]">>, <<"[", "r1", "]">>, <<"str">>, <<"[", "r1">>}

SamplerInit ==
    /\ stfile0 \in StartFiles
    /\ stfile = stfile0
    /\ tester = "ticking"
    /\ ticks = 0
    /\ written = <<>>
    /\ lastTick = "none"
    /\ inFlight = 0
    /\ failedAt = <<>>

\* a write through a handle opened with append(true): every write goes to
\* the end of the file, whatever was read through the handle before
WriteAppend(file, toks) == file \o toks

TickReady == procUp /\ tester = "ticking" /\ ticks < MaxTicks

\* speed_tester() has been called and has not returned
TickRunning == procUp /\ tester = "testing"

\* variant: the call is spawned as a task of its own and the loop goes on
TickStart_Detached ==
    /\ procUp /\ tester \in {"ticking", "testing"} /\ ticks + inFlight < MaxTicks
    /\ tester' = "testing"
    /\ inFlight' = inFlight + 1
    /\ UNCHANGED <<stfile, stfile0, ticks, written, lastTick>>
    /\ UNCHANGED failedAt
    /\ UNCHANGED <<probeVars, parserVars>>

\* iv.tick().await completes: speed_tester() is called and awaited
TickStart ==
    /\ TickReady
    /\ tester' = "testing"
    /\ inFlight' = inFlight + 1
    /\ UNCHANGED <<stfile, stfile0, ticks, written, lastTick>>
    /\ UNCHANGED failedAt
    /\ UNCHANGED <<probeVars, parserVars>>

\* variant: a non-zero status is returned as an error of the tick
TickStatusFail_Fatal ==
    /\ TickRunning
    /\ inFlight' = inFlight - 1
    /\ ticks' = ticks + 1
    /\ lastTick' = "skipped"
    /\ tester' = "failed"
    /\ UNCHANGED <<stfile, stfile0, written>>
    /\ failedAt' = <<sess, Len(log)>>
    /\ UNCHANGED <<probeVars, parserVars>>

\* the tool exits with a non-zero status: error!, return Ok(())
TickStatusFail ==
    /\ TickRunning
    /\ inFlight' = inFlight - 1
    /\ ticks' = ticks + 1
    /\ lastTick' = "skipped"
    /\ tester' = "ticking"
    /\ UNCHANGED <<stfile, stfile0, written>>
    /\ UNCHANGED failedAt
    /\ UNCHANGED <<probeVars, parserVars>>

\* variant: main joins the tester task and returns its error
TickOutputFail_Joined(why) ==
    /\ TickRunning
    /\ inFlight' = inFlight - 1
    /\ ticks' = ticks + 1
    /\ lastTick' = why
    /\ tester' = "failed"
    /\ main' = "error"
    /\ failedAt' = <<sess, Len(log)>>
    /\ UNCHANGED <<stfile, stfile0, written>>
    /\ UNCHANGED <<procUp, pc, sess, child, watcher, chan, pipe, emitted, timer,
                   log, warnings, outcome, fail, reads, parsedLines, late,
                   endedBy, outfile>>
    /\ UNCHANGED parserVars

\* the tool cannot be run, or its output is not UTF-8 or not JSON:
\* speed_tester returns Err, tester returns it and the task ends
TickOutputFail(why) ==
    /\ TickRunning
    /\ inFlight' = inFlight - 1
    /\ ticks' = ticks + 1
    /\ lastTick' = why
    /\ tester' = "failed"
    /\ UNCHANGED <<stfile, stfile0, written>>
    /\ failedAt' = <<sess, Len(log)>>
    /\ UNCHANGED <<probeVars, parserVars>>

\* the file reads as an array: push the record, to_writer the array
TickAppend(rec) ==
    /\ TickRunning
    /\ inFlight' = inFlight - 1
    /\ from_reader(stfile).kind = "array"
    /\ stfile' = WriteAppend(stfile, to_writer(Append(from_reader(stfile).elems, rec)))
    /\ ticks' = ticks + 1
    /\ written' = Append(written, rec)
    /\ lastTick' = "stored"
    /\ tester' = "ticking"
    /\ UNCHANGED stfile0
    /\ UNCHANGED failedAt
    /\ UNCHANGED <<probeVars, parserVars>>

\* the file reads as a JSON value that is not an array: as_array_mut is
\* None, "Speedtest file has wrong format, delete it"
TickFormatError(rec) ==
    /\ TickRunning
    /\ inFlight' = inFlight - 1
    /\ from_reader(stfile).kind = "other"
    /\ ticks' = ticks + 1
    /\ lastTick' = "format"
    /\ tester' = "failed"
    /\ UNCHANGED <<stfile, stfile0, written>>
    /\ failedAt' = <<sess, Len(log)>>
    /\ UNCHANGED <<probeVars, parserVars>>

\* from_reader fails (empty file, or text that is not one JSON value):
\* Err(_) => a new array of the one record is written
TickFresh(rec) ==
    /\ TickRunning
    /\ inFlight' = inFlight - 1
    /\ from_reader(stfile).kind = "error"
    /\ stfile' = WriteAppend(stfile, to_writer(<<rec>>))
    /\ ticks' = ticks + 1
    /\ written' = Append(written, rec)
    /\ lastTick' = "stored"
    /\ tester' = "ticking"
    /\ UNCHANGED stfile0
    /\ UNCHANGED failedAt
    /\ UNCHANGED <<probeVars, parserVars>>

SamplerNext ==
    \/ TickStart
    \/ TickStatusFail
    \/ \E why \in {"io", "utf8", "json"} : TickOutputFail(why)
    \/ \E rec \in Records : TickAppend(rec)
    \/ \E rec \in Records : TickFormatError(rec)
    \/ \E rec \in Records : TickFresh(rec)

(* ---------------------------------------------------------------------- *)
(* Specifications                                                          *)
(* ---------------------------------------------------------------------- *)
(* ---------------------------------------------------------------------- *)
(* line.parse::<Ping>() on lines built from their parts                    *)
(* ---------------------------------------------------------------------- *)
\* the timestamps of the lines
ParseStamps == {<<"1", ".", "5">>, <<"a">>}

\* latencies tried with every shape of line
FewValues == {0, 7, 23, U16_MAX, U16_MAX + 1, 131095}

\* latencies tried with the plain line: all of 0..MaxMs and some beyond
ManyValues == (0..MaxMs) \cup {99999, 131095, 655350, 1000000}

\* the shapes of line: "plain"    [ts] time=N
\*                     "wrapped"  x[ts] ttl time=N.5 ms
\*                     "zeros"    [ts]time=00N
\*                     "emptyts"  [] time=N
\*                     "twobr"    [ts][b]time=N
\*                     "twotime"  [ts]time=9 time=N
\*                     "unidigit" [ts]time=N followed by a non-ASCII digit
Shapes == {"plain", "wrapped", "zeros", "emptyts", "twobr", "twotime", "unidigit"}

ParseInputs ==
    [shape : {"plain"}, ts : {<<"1", ".", "5">>}, n : ManyValues]
    \cup [shape : Shapes, ts : ParseStamps, n : FewValues]

TimeField == <<"t", "i", "m", "e", "=">>

LineOf(in) ==
    LET d == Decimal(in.n)
        b == <<"[">> \o in.ts \o <<"]">>
    IN  CASE in.shape = "plain" -> b \o <<" ">> \o TimeField \o d
          [] in.shape = "wrapped" ->
                <<"x">> \o b \o <<" ", "t", "t", "l", " ">> \o TimeField \o d
                    \o <<".", "5", " ", "m", "s">>
          [] in.shape = "zeros" -> b \o TimeField \o <<"0", "0">> \o d
          [] in.shape = "emptyts" -> <<"[", "]", " ">> \o TimeField \o d
          [] in.shape = "twobr" -> b \o <<"[", "b", "]">> \o TimeField \o d
          [] in.shape = "twotime" ->
                b \o TimeField \o <<"9", " ">> \o TimeField \o d
          [] in.shape = "unidigit" -> b \o TimeField \o d \o <<"u0663">>

\* no parse under way
ParserIdle ==
    /\ pin = [shape |-> "plain", ts |-> <<"1", ".", "5">>, n |-> 0]
    /\ pout = <<>>

ParserInit ==
    /\ pin \in ParseInputs
    /\ pout = <<>>

\* line.parse::<Ping>()
Parse ==
    /\ pout = <<>>
    /\ pout' = <<from_str(LineOf(pin))>>
    /\ UNCHANGED <<pin, probeVars, samplerVars>>

(* ---------------------------------------------------------------------- *)
(* Specifications                                                          *)
(* ---------------------------------------------------------------------- *)
\* the probe path, speedtests.json absent and the sampler not yet ticking
Init == ProbeInit /\ SamplerInit /\ stfile0 = <<>> /\ ParserIdle

Next == ProbeNext

Spec == Init /\ [][Next]_vars

\* the throughput path, main waiting in its first pinger call
SamplerSpecInit == ProbeInit /\ SamplerInit /\ ParserIdle

SamplerSpec == SamplerSpecInit /\ [][SamplerNext]_vars

\* the parser alone
ParserSpecInit == ProbeInit /\ SamplerInit /\ stfile0 = <<>> /\ ParserInit

ParserNext == Parse

ParserSpec == ParserSpecInit /\ [][ParserNext]_vars

\* the two tasks of main together: the restart loop on the main task and
\* the spawned tester task, interleaved step by step
SysFiles == {<<>>, <<"[", "]">>, <<"str">>}

SystemInit == ProbeInit /\ SamplerInit /\ stfile0 \in SysFiles /\ ParserIdle

SysBound == sess' + emitted' + ticks' + inFlight' <= SysWork

SystemNext ==
    \/ SpawnFail /\ SysBound
    \/ SpawnOpenFail /\ SysBound
    \/ SpawnOk /\ SysBound
    \/ (\E line \in ProbeLines(emitted + 1) : ChildEmit(line)) /\ SysBound
    \/ (\E s \in Sessions : ChildExit(s)) /\ SysBound
    \/ Tick /\ SysBound
    \/ ReadSample /\ SysBound
    \/ (\E n \in 0..(MaxWritten) : ReadSampleWriteFail(n)) /\ SysBound
    \/ ReadSampleFlushFail /\ SysBound
    \/ ReadMalformed /\ SysBound
    \/ ReadInvalid /\ SysBound
    \/ ReadEof /\ SysBound
    \/ ReadTimeout /\ SysBound
    \/ SendOk /\ SysBound
    \/ SendPanic /\ SysBound
    \/ (\E s \in Sessions : WatcherExit(s)) /\ SysBound
    \/ (\E s \in Sessions : WatcherCancel(s)) /\ SysBound
    \/ (\E s \in Sessions : WatcherReap(s)) /\ SysBound
    \/ Exit /\ SysBound
    \/ TickStart /\ SysBound
    \/ TickStatusFail /\ SysBound
    \/ (\E why \in {"io", "utf8", "json"} : TickOutputFail(why)) /\ SysBound
    \/ (\E rec \in Records : TickAppend(rec)) /\ SysBound
    \/ (\E rec \in Records : TickFormatError(rec)) /\ SysBound
    \/ (\E rec \in Records : TickFresh(rec)) /\ SysBound

SystemSpec == SystemInit /\ [][SystemNext]_vars

(* ---------------------------------------------------------------------- *)
(* Properties of the probe path                                            *)
(* ---------------------------------------------------------------------- *)
\* a supervisor step that consumed a read result
ReadStep == Len(reads') = Len(reads) + 1

\* C1: when pinger has returned after its loop ended by EOF or by timeout,
\* the probe of that session has been terminated and reaped.
C1_Claim ==
    (main = "running" /\ pc = "spawn" /\ sess >= 1
        /\ Last(reads) \in {"eof", "elapsed"})
    => child[sess] = "reaped"

\* C2: a session whose loop ended by EOF or by stall never makes the main
\* task stop: no error and no panic reaches the program.
C2_Claim == outcome \in {"eof", "stall"} => main = "running"

\* C3: the loop ends for exactly one of two reasons, each with its own
\* outcome: end of input gives the EOF outcome, an elapsed window gives
\* the stall outcome, and no other read result gives the stall outcome.
C3_Claim ==
    (pc = "send" /\ reads # <<>>)
    => \/ outcome = "eof" /\ Last(reads) = "eof"
       \/ outcome = "stall" /\ Last(reads) = "elapsed"

\* C4: a session in which every line arrives inside the window of its read
\* never takes the timeout branch: its loop ends only on EOF.
C4_Claim == ~late => outcome # "stall"

\* C5: a line that does not parse leaves the loop running and the log
\* unchanged, logs exactly one warning, and the next read is set up.
C5_Theorem ==
    [][ (LineReady /\ IsUtf8(Head(pipe)) /\ ~from_str(Head(pipe)).ok /\ ReadStep)
        => /\ pc' = "read"
           /\ main' = "running"
           /\ outcome' = "none"
           /\ log' = log
           /\ parsedLines' = parsedLines
           /\ warnings' = warnings + 1
           /\ timer' = 0 ]_vars

\* a malformed line was read, and the line after it was read and logged
C5_Witness ==
    /\ reads = <<"malformed", "sample">>
    /\ warnings = 1
    /\ log = <<"2", ".", "5", " ", "2", "3", "\n">>
    /\ pc = "read"

\* the text "<timestamp> <latency_ms>\n" of the lines a probe may print
SampleText(line) == <<line[2], ".", "5", " ", "2", "3", "\n">>

RECURSIVE ExpectedLog(_)
ExpectedLog(lines) ==
    IF lines = <<>> THEN <<>>
    ELSE SampleText(Head(lines)) \o ExpectedLog(Tail(lines))

AllButLast(seq) == SubSeq(seq, 1, Len(seq) - 1)

\* C6 as stated: the log is exactly the sample lines of the parsed lines,
\* one per parsed line, in arrival order.
C6_Original == log = ExpectedLog(parsedLines)

\* C6 amended: the log only grows at its end; it is exactly the sample
\* lines of the parsed lines in arrival order unless a write failed, and
\* then it is the sample lines of the earlier parsed lines followed by a
\* proper prefix of the line whose write failed.
C6_Theorem ==
    /\ [](fail # "write" => log = ExpectedLog(parsedLines))
    /\ [](fail = "write" =>
            \E n \in 0..(Len(SampleText(Last(parsedLines))) - 1) :
                log = ExpectedLog(AllButLast(parsedLines))
                        \o SubSeq(SampleText(Last(parsedLines)), 1, n))
    /\ [][IsPrefix(log, log')]_vars

\* one sample in the first session, another in the second
C6_Witness ==
    /\ sess = 2
    /\ reads = <<"sample">>
    /\ parsedLines = <<GoodLine(1), GoodLine(2)>>
    /\ log = <<"1", ".", "5", " ", "2", "3", "\n", "2", ".", "5", " ", "2", "3", "\n">>

\* C7: a failed write or flush ends the session with the error at once,
\* main returns it, and afterwards nothing is read, written or spawned.
C7_Theorem ==
    [][ /\ (ReadStep /\ Last(reads') \in {"writefail", "flushfail"})
            => (main' = "error" /\ outcome' = "error" /\ pc' = pc /\ sess' = sess)
        /\ (main = "error" /\ fail \in {"write", "flush"})
            => /\ main' = "error"
               /\ sess' = sess
               /\ reads' = reads
               /\ pipe' = pipe
               /\ log' = log ]_vars

\* the program has ended on a write failure with a line left unread
C7_Witness ==
    /\ fail = "write"
    /\ main = "error"
    /\ ~procUp
    /\ pipe # <<>>
    /\ sess < MaxSessions

\* C8: a failed spawn makes pinger return at once, without a watcher, a
\* channel or a read, and main returns the error: no other spawn follows.
C8_Theorem ==
    [][ /\ (sess' = sess + 1 /\ child'[sess'] = "none")
            => /\ main' = "error"
               /\ fail' = "spawn"
               /\ watcher'[sess'] = "none"
               /\ chan'[sess'] = "none"
               /\ reads' = <<>>
               /\ log' = log
        /\ fail = "spawn"
            => (main' = "error" /\ sess' = sess /\ pc' = pc /\ reads' = reads
                  /\ log' = log) ]_vars

\* the first spawn failed, the program has ended, attempts were left
C8_Witness ==
    /\ fail = "spawn"
    /\ main = "error"
    /\ ~procUp
    /\ sess = 1
    /\ child = [s \in Sessions |-> "none"]

(* ---------------------------------------------------------------------- *)
(* Properties of the throughput path                                       *)
(* ---------------------------------------------------------------------- *)
\* C9: a successful tick on a file holding a JSON array of length K leaves
\* the file holding one JSON array of length K+1: the old elements, then
\* the new record.
C9_Claim ==
    [][ (from_reader(stfile).kind = "array" /\ ticks' = ticks + 1
            /\ lastTick' = "stored")
        => /\ from_reader(stfile').kind = "array"
           /\ from_reader(stfile').elems
                = Append(from_reader(stfile).elems, Last(written')) ]_vars

\* C10: starting from an empty file, after the ticks so far the file
\* deserializes as one JSON array with one element per successful tick.
C10_Claim ==
    (stfile0 = <<>> /\ Len(written) >= 1)
    => /\ from_reader(stfile).kind = "array"
       /\ Len(from_reader(stfile).elems) = Len(written)

\* a tick that got the tool's record and went on to the collection file
StoreStep == ticks' = ticks + 1 /\ lastTick' \in {"stored", "format"}

\* C11: a tick on a file that is present, not empty and not a JSON array
\* fails with the format error, appends no record and leaves the file as
\* it was.
C11_Claim ==
    [][ (stfile # <<>> /\ from_reader(stfile).kind # "array" /\ StoreStep)
        => /\ lastTick' = "format"
           /\ tester' = "failed"
           /\ written' = written
           /\ stfile' = stfile ]_vars

\* C12: a tick whose tool exits with a non-zero status appends nothing,
\* leaves the file untouched and leaves the sampler task waiting for its
\* next tick.
C12_Theorem ==
    [][ (ticks' = ticks + 1 /\ lastTick' = "skipped")
        => /\ stfile' = stfile
           /\ written' = written
           /\ tester' = "ticking"
           /\ (ticks' < MaxTicks => TickReady') ]_vars

\* the first tick was skipped and the second one stored its record
C12_Witness ==
    /\ ticks = 2
    /\ lastTick = "stored"
    /\ Len(written) = 1
    /\ tester = "ticking"
    /\ stfile = stfile0 \o <<"[", written[1], "]">>

(* ---------------------------------------------------------------------- *)
(* Properties of the parser                                                *)
(* ---------------------------------------------------------------------- *)
Parsed == pout # <<>>

\* lines with one bracket group that is not empty and ASCII digits only
\* after their last time=
WellFormed(in) == in.shape \in {"plain", "wrapped", "zeros", "twobr", "twotime"}

\* C14: a latency above 65535 makes the parse fail: it is neither clamped
\* nor wrapped; every latency of 0..65535 is returned as written.
C14_Theorem ==
    (Parsed /\ WellFormed(pin))
    => /\ pin.n > U16_MAX => pout[1] = NoPing
       /\ pin.n <= U16_MAX => (pout[1].ok /\ pout[1].ms = pin.n)

\* the latency 65536 + 23 was parsed and gave no sample
C14_Witness ==
    /\ Parsed
    /\ pin.shape = "plain"
    /\ pin.n = U16_MAX + 1 + 23
    /\ pout[1] = NoPing

\* the line holds a bracket group and, after it, a time= field whose
\* digits fit 16 bits
ClaimCovers(in) == in.n <= U16_MAX \/ in.shape = "twotime"

\* the text between brackets that the line holds
ClaimedStamps(in) ==
    CASE in.shape = "emptyts" -> {<<>>}
      [] in.shape = "twobr" -> {in.ts, <<"b">>, in.ts \o <<"]", "[", "b">>}
      [] OTHER -> {in.ts}

\* the values of the time= fields that the line holds
ClaimedValues(in) == IF in.shape = "twotime" THEN {9, in.n} ELSE {in.n}

\* C15 as stated: every line with a bracket group followed by time=<digits>
\* fitting 16 bits parses to the text between the brackets and the value
\* of the digits, also with an empty group and with several groups or
\* fields.
C15_Original ==
    (Parsed /\ ClaimCovers(pin))
    => /\ pout[1].ok
       /\ pout[1].timestamp \in ClaimedStamps(pin)
       /\ pout[1].ms \in ClaimedValues(pin)

\* what the pattern takes as the timestamp: from the first "[" to the last
\* "]" before the last time= field
GreedyStamp(in) ==
    IF in.shape = "twobr" THEN in.ts \o <<"]", "[", "b">> ELSE in.ts

\* C15 amended: a line with a bracket group that is not empty, whose last
\* time= field is followed by ASCII digits fitting 16 bits and then by no
\* further digit, parses to the text from the first "[" to the last "]"
\* before that field and to the value of that field; a line whose only
\* bracket group is empty does not parse.
C15_Theorem ==
    Parsed =>
        /\ (WellFormed(pin) /\ pin.n <= U16_MAX)
            => /\ pout[1].ok
               /\ pout[1].timestamp = GreedyStamp(pin)
               /\ pout[1].ms = pin.n
        /\ pin.shape = "emptyts" => pout[1] = NoPing

\* a line with two bracket groups was parsed, and one with two time= fields
C15_Witness ==
    /\ Parsed
    /\ pin = [shape |-> "twotime", ts |-> <<"1", ".", "5">>, n |-> 23]
    /\ pout[1] = [ok |-> TRUE, timestamp |-> <<"1", ".", "5">>, ms |-> 23]

(* ---------------------------------------------------------------------- *)
(* Properties of the two tasks together                                    *)
(* ---------------------------------------------------------------------- *)
\* the step in which the tester task returns its error
TesterFails == tester # "failed" /\ tester' = "failed"

\* C13: the step in which the sampler task fails changes nothing of the
\* main task; the failed task takes no further step; and with the sampler
\* task gone the restart loop can still start its next session, and a
\* read of a well-formed line still appends its sample.
C13_Theorem ==
    /\ [][TesterFails => UNCHANGED probeVars]_vars
    /\ [][tester = "failed" => UNCHANGED samplerVars]_vars
    /\ []((tester = "failed" /\ procUp /\ main = "running" /\ pc = "spawn"
                /\ sess < MaxSessions)
            => ENABLED SpawnOk)
    /\ [][ (tester = "failed" /\ LineReady /\ IsUtf8(Head(pipe))
                /\ from_str(Head(pipe)).ok /\ ReadStep /\ main' = "running")
            => /\ log' = log \o LogLine(from_str(Head(pipe)))
               /\ pc' = "read" ]_vars

\* the sampler task failed on the tool's output or on the file's format;
\* after that a session was started and a sample was appended
C13_Witness ==
    /\ procUp /\ main = "running"
    /\ tester = "failed"
    /\ lastTick \in {"json", "format"}
    /\ sess > failedAt[1]
    /\ Len(log) > failedAt[2]

\* sessions whose handle on ping.log is open
Holders == {s \in Sessions : outfile[s] = "open"}

\* C16: at most one session holds ping.log open, it is the current one,
\* and at most one speed_tester call is running.
C16_Theorem ==
    /\ Cardinality(Holders) <= 1
    /\ Holders \subseteq {sess}
    /\ inFlight <= 1

\* the first session has closed the log, the second holds it, and a
\* throughput tick is running at the same time
C16_Witness ==
    /\ outfile[1] = "closed"
    /\ outfile[2] = "open"
    /\ inFlight = 1

(* ---------------------------------------------------------------------- *)
(* Properties of the cancel channel, the watchers and the program's end    *)
(* ---------------------------------------------------------------------- *)
\* C17: when the supervisor is about to run send.send(()).unwrap(), the
\* watcher's receiving end still exists, so the send cannot fail.
C17_Claim ==
    (procUp /\ main = "running" /\ pc = "send") => chan[sess] = "open"

\* C18: for every session whose loop ended by EOF or stall and that
\* signalled its watcher, the probe is terminated and the watcher finishes
\* by one of its two branches; as a final result: once the program has
\* ended, no such watcher is left unfinished.
C18_Claim ==
    ~procUp =>
        \A s \in Sessions :
            (chan[s] = "sent" /\ endedBy[s] = "eof_or_elapsed")
            => /\ watcher[s] \in {"done_exit", "done_kill"}
               /\ child[s] # "running"

\* C19: once the program has ended on an error that followed the spawn
\* (open, write or flush), the probe of that session is not running.
C19_Claim ==
    (~procUp /\ fail \in {"open", "write", "flush"}) => child[sess] # "running"

====
